---- MODULE Spec2Model ----
(***************************************************************************)
(* A model of the document-to-Markdown pipeline of AI_cheat_sheet_maker:   *)
(* file_to_md.convert_to_markdown with its two PDF strategies (sequential  *)
(* text layer, thread-pool OCR) and the callers in main.py.                *)
(*                                                                         *)
(* A text is a sequence of one-character strings.  A path is a record      *)
(* [dir, stem, ext].  The filesystem fs is a function whose domain is the  *)
(* set of existing files.                                                  *)
(***************************************************************************)
EXTENDS Integers, Sequences, FiniteSets, TLC

VARIABLES fs, installed, call, futures, results, collected, phase, ret, writes, run

vars == <<fs, installed, call, futures, results, collected, phase, ret, writes, run>>

(***************************************************************************)
(* Bounds of the model.                                                    *)
(***************************************************************************)
MaxPages == 2
MaxFiles == 2
MaxRuns == 2

(***************************************************************************)
(* Text primitives: str.strip, str.lower on a suffix, "\n".join, f"{idx}". *)
(***************************************************************************)
Whitespace == {" ", "\n"}

RECURSIVE LStrip(_)
LStrip(t) ==
  IF t = <<>> THEN <<>>
  ELSE IF Head(t) \in Whitespace THEN LStrip(Tail(t)) ELSE t

RECURSIVE RStrip(_)
RStrip(t) ==
  IF t = <<>> THEN <<>>
  ELSE IF t[Len(t)] \in Whitespace THEN RStrip(SubSeq(t, 1, Len(t) - 1)) ELSE t

Strip(t) == RStrip(LStrip(t))

Lower(e) ==
  CASE e = "MD" -> "md"
    [] e = "TXT" -> "txt"
    [] e = "PDF" -> "pdf"
    [] OTHER -> e

RECURSIVE Join(_)
Join(lines) ==
  IF lines = <<>> THEN <<>>
  ELSE IF Len(lines) = 1 THEN lines[1]
  ELSE lines[1] \o <<"\n">> \o Join(Tail(lines))

Digits == <<"0", "1", "2", "3", "4", "5", "6", "7", "8", "9">>

RECURSIVE DecStr(_)
DecStr(n) ==
  IF n < 10 THEN <<Digits[n + 1]>>
  ELSE DecStr(n \div 10) \o <<Digits[(n % 10) + 1]>>

PageHeader(n) == <<"P", "a", "g", "e", " ">> \o DecStr(n)

\* `value or ""` for an Optional[str]
NoneVal == <<"None">>
OrEmpty(v) == IF v = NoneVal THEN <<>> ELSE v

(***************************************************************************)
(* Paths and files.                                                        *)
(***************************************************************************)
Stems == {"a"}
Exts == {"md", "MD", "txt", "pdf", "doc"}
NotesPaths == [dir : {"lecture_notes"}, stem : Stems, ext : Exts]
Paths == [dir : {"lecture_notes", "past_papers", "assignment"}, stem : Stems, ext : Exts]
         \cup [dir : {"course"}, stem : {"cheatsheet"}, ext : {"md", "pdf"}]

WithSuffix(p, e) == [p EXCEPT !.ext = e]
Exists(f, p) == p \in DOMAIN f
WriteText(f, p, t) == (p :> [text |-> t]) @@ f
ReadText(f, p) == f[p].text

\* sample contents
OldMd == <<"o", "l", "d">>
TxtSamples == { <<" ", "\n">>, <<" ", "x", " ", "y", "\n", "\n">> }
PageSamples == { NoneVal, <<" ">>, <<" ", "x", "\n">> }

RECURSIVE SeqsUpTo(_, _)
SeqsUpTo(S, n) ==
  IF n = 0 THEN {<<>>}
  ELSE LET shorter == SeqsUpTo(S, n - 1)
       IN  shorter \cup {Append(s, x) : s \in {q \in shorter : Len(q) = n - 1}, x \in S}

ContentsFor(p) ==
  CASE Lower(p.ext) = "md" -> {[text |-> OldMd]}
    [] Lower(p.ext) = "txt" -> {[text |-> t] : t \in TxtSamples}
    [] Lower(p.ext) = "pdf" -> {[pages |-> ps] : ps \in SeqsUpTo(PageSamples, MaxPages)}
    [] OTHER -> {[text |-> <<"b", "i", "n">>]}

EmptyFs == [p \in {} |-> p]

RECURSIVE FsOver(_)
FsOver(S) ==
  IF S = {} THEN {EmptyFs}
  ELSE LET p == CHOOSE q \in S : TRUE
       IN  {(p :> c) @@ f : c \in ContentsFor(p), f \in FsOver(S \ {p})}

(***************************************************************************)
(* Injected callables.  A quality gate is any predicate on the text; the   *)
(* model offers none, the non-blank gate of the module's own entry point,  *)
(* and a gate that rejects everything.  The OCR function is absent or      *)
(* llm_ocr, whose call returns the page's text, returns None, or raises.   *)
(***************************************************************************)
QualityCheckers == {"NoGate", "nonblank", "reject"}
Gate(qc, text) ==
  CASE qc = "nonblank" -> Strip(text) # <<>>
    [] qc = "reject" -> FALSE
    [] OTHER -> TRUE

OcrFuncs == {"NoOcr", "llm_ocr"}
Backends == {"pypdf", "fitz"}

(***************************************************************************)
(* The merge of the text-layer strategy (file_to_md.py lines 91-110).      *)
(***************************************************************************)
PageTexts(pages) == [i \in 1..Len(pages) |-> OrEmpty(pages[i])]

\* mutant: blank pages are not skipped
RECURSIVE TextLinesKeepBlank(_, _)
TextLinesKeepBlank(page_texts, idx) ==
  IF idx > Len(page_texts) THEN <<>>
  ELSE <<PageHeader(idx), <<>>, Strip(page_texts[idx]), <<>>>>
       \o TextLinesKeepBlank(page_texts, idx + 1)

RECURSIVE TextLines(_, _)
TextLines(page_texts, idx) ==
  IF idx > Len(page_texts) THEN <<>>
  ELSE LET clean == Strip(page_texts[idx])
       IN  (IF clean = <<>> THEN <<>>
            ELSE <<PageHeader(idx), <<>>, clean, <<>>>>)
           \o TextLines(page_texts, idx + 1)

(***************************************************************************)
(* The results dict of the OCR strategy: insertion-ordered <<key, value>>  *)
(* pairs, and the merge over sorted(results) (lines 139-157).              *)
(***************************************************************************)
Keys(d) == {d[i][1] : i \in 1..Len(d)}
Lookup(d, k) == LET i == CHOOSE j \in 1..Len(d) : d[j][1] = k IN d[i][2]
DictSet(d, k, v) ==
  IF k \in Keys(d)
  THEN [i \in 1..Len(d) |-> IF d[i][1] = k THEN <<k, v>> ELSE d[i]]
  ELSE Append(d, <<k, v>>)

RECURSIVE SortedSeq(_)
SortedSeq(S) ==
  IF S = {} THEN <<>>
  ELSE LET m == CHOOSE x \in S : \A y \in S : x <= y
       IN  <<m>> \o SortedSeq(S \ {m})

\* mutant: the dict is iterated as it was filled, without sorted()
InsertionOrder(d) == [i \in 1..Len(d) |-> d[i][1]]

\* line 152: sorted(results)
IterationOrder(d) == SortedSeq(Keys(d))

RECURSIVE OcrLinesOver(_, _)
OcrLinesOver(d, order) ==
  IF order = <<>> THEN <<>>
  ELSE <<PageHeader(Head(order) + 1), <<>>, Lookup(d, Head(order)), <<>>>>
       \o OcrLinesOver(d, Tail(order))

OcrLines(d) == OcrLinesOver(d, IterationOrder(d))

(***************************************************************************)
(* Outcomes of a call: a returned path or a raised exception.  carries is  *)
(* TRUE when the exception's message contains the source path.             *)
(***************************************************************************)
NoPath == [dir |-> "", stem |-> "", ext |-> ""]

\* a return without a write (passthrough or cache hit)
Returned(path) ==
  [status |-> "returned", path |-> path, exc |-> "", kind |-> "", carries |-> FALSE,
   gateRan |-> FALSE, extracted |-> FALSE, wrote |-> FALSE, text |-> <<>>]

\* a return after text was written to path
Written(path, text, gateRan) ==
  [status |-> "returned", path |-> path, exc |-> "", kind |-> "", carries |-> FALSE,
   gateRan |-> gateRan, extracted |-> TRUE, wrote |-> TRUE, text |-> text]

\* a raise before any text was produced
Raised(exc, kind, carries, extracted) ==
  [status |-> "raised", path |-> NoPath, exc |-> exc, kind |-> kind, carries |-> carries,
   gateRan |-> FALSE, extracted |-> extracted, wrote |-> FALSE, text |-> <<>>]

\* the raise of a failed quality check on text
Rejected(text) ==
  [status |-> "raised", path |-> NoPath, exc |-> "ConversionError",
   kind |-> "QualityCheckFailed", carries |-> TRUE,
   gateRan |-> TRUE, extracted |-> TRUE, wrote |-> FALSE, text |-> text]

\* the point where the thread pool is entered
PoolStart ==
  [status |-> "pool", path |-> NoPath, exc |-> "", kind |-> "", carries |-> FALSE,
   gateRan |-> FALSE, extracted |-> TRUE, wrote |-> FALSE, text |-> <<>>]

\* mutant: the verdict of the gate is ignored
GateAndWriteIgnoresVerdict(src, qc, markdown_text) ==
  Written(WithSuffix(src, "md"), markdown_text, qc # "NoGate")

\* lines 76-80: quality gate, then the write
GateAndWrite(src, qc, markdown_text) ==
  IF qc # "NoGate" /\ ~Gate(qc, markdown_text)
  THEN Rejected(markdown_text)
  ELSE Written(WithSuffix(src, "md"), markdown_text, qc # "NoGate")

\* mutant: the `if not lines` check is missing
ConvertPdfTextNoEmptyCheck(f, inst, src, qc) ==
  IF "pypdf" \notin inst
  THEN Raised("ConversionError", "BackendUnavailable", FALSE, FALSE)
  ELSE GateAndWrite(src, qc, Join(TextLines(PageTexts(f[src].pages), 1)))

\* lines 83-110
ConvertPdfText(f, inst, src, qc) ==
  IF "pypdf" \notin inst
  THEN Raised("ConversionError", "BackendUnavailable", FALSE, FALSE)
  ELSE LET lines == TextLines(PageTexts(f[src].pages), 1)
       IN  IF lines = <<>>
           THEN Raised("ConversionError", "NoExtractableText", TRUE, TRUE)
           ELSE GateAndWrite(src, qc, Join(lines))

\* lines 113-126: what _convert_pdf_to_markdown_ocr raises before the pool
OcrPrecheck(f, inst, src, ocr) ==
  IF ocr = "NoOcr"
  THEN Raised("ConversionError", "MissingOcrFunction", FALSE, FALSE)
  ELSE IF "fitz" \notin inst
  THEN Raised("ConversionError", "BackendUnavailable", FALSE, FALSE)
  ELSE IF Len(f[src].pages) = 0
  THEN Raised("ConversionError", "NoPages", TRUE, FALSE)
  ELSE PoolStart

\* mutant: the sibling is not looked for
ConvertTxtAlwaysConverts(f, src, qc) ==
  LET md_path == WithSuffix(src, "md")
      markdown == Strip(ReadText(f, src)) \o <<"\n">>
  IN  IF qc # "NoGate" /\ ~Gate(qc, markdown)
      THEN Rejected(markdown)
      ELSE Written(md_path, markdown, qc # "NoGate")

\* mutant: the text is not stripped
ConvertTxtNoStrip(f, src, qc) ==
  LET md_path == WithSuffix(src, "md")
      markdown == ReadText(f, src) \o <<"\n">>
  IN  IF Exists(f, md_path)
      THEN Returned(md_path)
      ELSE IF qc # "NoGate" /\ ~Gate(qc, markdown)
      THEN Rejected(markdown)
      ELSE Written(md_path, markdown, qc # "NoGate")

\* lines 52-61
ConvertTxt(f, src, qc) ==
  LET md_path == WithSuffix(src, "md")
      markdown == Strip(ReadText(f, src)) \o <<"\n">>
  IN  IF Exists(f, md_path)
      THEN Returned(md_path)
      ELSE IF qc # "NoGate" /\ ~Gate(qc, markdown)
      THEN Rejected(markdown)
      ELSE Written(md_path, markdown, qc # "NoGate")

\* mutant: the type and the OCR function are validated before the sibling is
\* looked for
ConvertOtherValidatesFirst(f, inst, src, qc, ocr, use_ocr) ==
  IF Lower(src.ext) # "pdf"
  THEN Raised("ConversionError", "UnsupportedType", FALSE, FALSE)
  ELSE IF use_ocr /\ ocr = "NoOcr"
  THEN Raised("ConversionError", "MissingOcrFunction", FALSE, FALSE)
  ELSE IF Exists(f, WithSuffix(src, "md"))
  THEN Returned(WithSuffix(src, "md"))
  ELSE IF use_ocr THEN OcrPrecheck(f, inst, src, ocr) ELSE ConvertPdfText(f, inst, src, qc)

\* mutant: the sibling is not looked for
ConvertOtherNoReuse(f, inst, src, qc, ocr, use_ocr) ==
  IF Lower(src.ext) = "pdf"
  THEN (IF use_ocr THEN OcrPrecheck(f, inst, src, ocr) ELSE ConvertPdfText(f, inst, src, qc))
  ELSE Raised("ConversionError", "UnsupportedType", FALSE, FALSE)

\* lines 63-74
ConvertOther(f, inst, src, qc, ocr, use_ocr) ==
  IF Exists(f, WithSuffix(src, "md"))
  THEN Returned(WithSuffix(src, "md"))
  ELSE IF Lower(src.ext) = "pdf"
  THEN (IF use_ocr THEN OcrPrecheck(f, inst, src, ocr) ELSE ConvertPdfText(f, inst, src, qc))
  ELSE Raised("ConversionError", "UnsupportedType", FALSE, FALSE)

\* mutant: the suffix is compared without lower()
ConvertEnterCaseSensitive(f, inst, src, qc, ocr, use_ocr) ==
  IF ~Exists(f, src)
  THEN Raised("FileNotFoundError", "SourceNotFound", TRUE, FALSE)
  ELSE IF src.ext = "md"
  THEN Returned(src)
  ELSE IF src.ext = "txt"
  THEN ConvertTxt(f, src, qc)
  ELSE ConvertOther(f, inst, src, qc, ocr, use_ocr)

\* lines 43-80, up to the point where the OCR pool starts
ConvertEnter(f, inst, src, qc, ocr, use_ocr) ==
  IF ~Exists(f, src)
  THEN Raised("FileNotFoundError", "SourceNotFound", TRUE, FALSE)
  ELSE IF Lower(src.ext) = "md"
  THEN Returned(src)
  ELSE IF Lower(src.ext) = "txt"
  THEN ConvertTxt(f, src, qc)
  ELSE ConvertOther(f, inst, src, qc, ocr, use_ocr)

(***************************************************************************)
(* The OCR fan-out (lines 130-149).  One future per page index; a worker   *)
(* runs _render_and_ocr; the calling thread takes completed futures from   *)
(* as_completed and fills results; leaving the with block joins the pool.  *)
(***************************************************************************)
Pending == [st |-> "pending", val |-> <<>>]

\* mutant: the text of the OCR call is not stripped
RenderAndOcrNoStrip(raw, raises) ==
  IF raises THEN [st |-> "raised", val |-> <<>>]
  ELSE [st |-> "done", val |-> OrEmpty(raw)]

\* lines 130-137: the OCR call returns text (or None), or raises
RenderAndOcr(raw, raises) ==
  IF raises THEN [st |-> "raised", val |-> <<>>]
  ELSE [st |-> "done", val |-> Strip(OrEmpty(raw))]

\* mutant: the text of a page is stored also when it is empty
StoreAlways(d, page_index, clean) == DictSet(d, page_index, clean)

\* lines 144-146: one iteration of the as_completed loop on a finished future
Store(d, page_index, clean) ==
  IF clean # <<>> THEN DictSet(d, page_index, clean) ELSE d

\* lines 148-157 and 76-80: after the pool has been joined
AfterPool(src, qc, raising, d) ==
  IF raising THEN Raised("RuntimeError", "OcrError", FALSE, TRUE)
  ELSE IF d = <<>> THEN Raised("ConversionError", "NoExtractableText", TRUE, TRUE)
  ELSE GateAndWrite(src, qc, Join(OcrLines(d)))

(***************************************************************************)
(* main.py: directory listing, batch assembly, cheatsheet loading.         *)
(***************************************************************************)
\* line 52: sorted(base_dir.rglob("*")) orders names by code point, so an
\* upper-case extension sorts before the lower-case ones
NameOrder == <<"MD", "doc", "md", "pdf", "txt">>
Rank(e) == CHOOSE i \in 1..Len(NameOrder) : NameOrder[i] = e
PathBefore(p, q) ==
  \/ p.stem # q.stem /\ p.stem = "a"
  \/ p.stem = q.stem /\ Rank(p.ext) <= Rank(q.ext)

RECURSIVE SortedPaths(_)
SortedPaths(S) ==
  IF S = {} THEN <<>>
  ELSE LET m == CHOOSE x \in S : \A y \in S : PathBefore(x, y)
       IN  <<m>> \o SortedPaths(S \ {m})

\* lines 52-57: the files of the directory with an eligible suffix, sorted
Eligible == {"md", "txt", "pdf"}
ListDir(f, d) ==
  SortedPaths({p \in DOMAIN f : p.dir = d /\ Lower(p.ext) \in Eligible})

\* lines 121-123, 136-138
GatherDirs == <<"lecture_notes", "past_papers", "assignment">>

\* lines 83-84
CheatMd == [dir |-> "course", stem |-> "cheatsheet", ext |-> "md"]
CheatPdf == [dir |-> "course", stem |-> "cheatsheet", ext |-> "pdf"]

\* lines 62-63 and 94-95: the arguments main.py passes to convert_to_markdown
CallArgs(path, use_ocr) ==
  [active |-> TRUE, src |-> path, qc |-> "NoGate",
   ocr |-> IF use_ocr THEN "llm_ocr" ELSE "NoOcr",
   use_ocr |-> IF Lower(path.ext) = "pdf" THEN use_ocr ELSE FALSE]

\* the state of a run of main(); pc is "off" when convert_to_markdown is
\* called directly
NoRun == [pc |-> "off", stage |-> 0, use_ocr |-> FALSE, listed |-> FALSE, queue |-> <<>>,
          cheatsheet |-> <<>>, lists |-> <<<<>>, <<>>, <<>>>>, skipped |-> {},
          report |-> FALSE, nruns |-> 0,
          notes_ocr |-> FALSE, prev |-> [done |-> FALSE, notes_ocr |-> FALSE, notes |-> <<>>],
          state |-> [p \in Paths |-> "Unseen"], tries |-> [p \in Paths |-> 0]]

\* the per-source state of section 4.4 that an outcome stands for
StateOf(o) ==
  IF o.status = "pool" THEN "Extracting"
  ELSE IF o.status = "raised" THEN "Failed"
  ELSE IF o.wrote THEN "Converted"
  ELSE "Reused"

\* lines 60 and 92: the run calls convert_to_markdown on src
Called(r, src) == [r EXCEPT !.tries[src] = @ + 1]

\* the call of the run on src has reached outcome o
Reached(r, src, o) == IF r.pc = "off" THEN r ELSE [r EXCEPT !.state[src] = StateOf(o)]

\* mutant: a file whose conversion failed stays at the head of the queue
AfterConvertRetriesFailed(r, c, o, f2) ==
  LET s == Reached(r, c.src, o)
  IN  CASE r.pc = "cheatsheet" ->
             IF o.status = "returned"
             THEN [s EXCEPT !.pc = "gather", !.stage = 1, !.cheatsheet = ReadText(f2, o.path)]
             ELSE IF o.exc = "ConversionError" THEN [s EXCEPT !.pc = "exited"]
             ELSE [s EXCEPT !.pc = "crashed"]
        [] r.pc = "gather" ->
             IF o.status = "returned"
             THEN [s EXCEPT !.lists[r.stage] = Append(@, ReadText(f2, o.path)),
                            !.queue = Tail(@)]
             ELSE IF o.exc = "ConversionError"
             THEN [s EXCEPT !.skipped = @ \cup {c.src}]
             ELSE [s EXCEPT !.pc = "crashed"]
        [] OTHER -> r

\* mutant: a cheatsheet that cannot be converted is treated as empty
AfterConvertKeepsGoing(r, c, o, f2) ==
  LET s == Reached(r, c.src, o)
  IN  CASE r.pc = "cheatsheet" ->
             IF o.status = "returned"
             THEN [s EXCEPT !.pc = "gather", !.stage = 1, !.cheatsheet = ReadText(f2, o.path)]
             ELSE [s EXCEPT !.pc = "gather", !.stage = 1]
        [] r.pc = "gather" ->
             IF o.status = "returned"
             THEN [s EXCEPT !.lists[r.stage] = Append(@, ReadText(f2, o.path)),
                            !.queue = Tail(@)]
             ELSE IF o.exc = "ConversionError"
             THEN [s EXCEPT !.skipped = @ \cup {c.src}, !.queue = Tail(@)]
             ELSE [s EXCEPT !.pc = "crashed"]
        [] OTHER -> r

\* lines 59-67 and 89-99: what the caller does with the outcome o of its
\* call c, f2 being the filesystem after the call
AfterConvert(r, c, o, f2) ==
  LET s == Reached(r, c.src, o)
  IN  CASE r.pc = "cheatsheet" ->
             IF o.status = "returned"
             THEN [s EXCEPT !.pc = "gather", !.stage = 1, !.cheatsheet = ReadText(f2, o.path)]
             ELSE IF o.exc = "ConversionError" THEN [s EXCEPT !.pc = "exited"]
             ELSE [s EXCEPT !.pc = "crashed"]
        [] r.pc = "gather" ->
             IF o.status = "returned"
             THEN [s EXCEPT !.lists[r.stage] = Append(@, ReadText(f2, o.path)),
                            !.queue = Tail(@)]
             ELSE IF o.exc = "ConversionError"
             THEN [s EXCEPT !.skipped = @ \cup {c.src}, !.queue = Tail(@)]
             ELSE [s EXCEPT !.pc = "crashed"]
        [] OTHER -> r

(***************************************************************************)
(* State machine.                                                          *)
(***************************************************************************)
NoCall == [active |-> FALSE, src |-> NoPath, qc |-> "NoGate", ocr |-> "NoOcr",
           use_ocr |-> FALSE]

NoRet == Returned(NoPath) @@
         [src |-> NoPath, qc |-> "NoGate", ocr |-> "NoOcr", use_ocr |-> FALSE, pre |-> EmptyFs]

FileSets == {S \in SUBSET NotesPaths : Cardinality(S) <= MaxFiles}

InitCommon ==
  /\ installed \in SUBSET Backends
  /\ call = NoCall
  /\ futures = <<>>
  /\ results = <<>>
  /\ collected = {}
  /\ phase = "idle"
  /\ ret = NoRet
  /\ writes = [p \in Paths |-> 0]

\* direct calls of convert_to_markdown on one directory
Init ==
  /\ fs \in UNION {FsOver(S) : S \in FileSets}
  /\ run = NoRun
  /\ InitCommon

\* the call is over: its write, if any, reaches the filesystem and the
\* outcome reaches the caller
Complete(r, c, o) ==
  LET f2 == IF o.wrote THEN WriteText(fs, o.path, o.text) ELSE fs
  IN  /\ fs' = f2
      /\ writes' = IF o.wrote THEN [writes EXCEPT ![o.path] = @ + 1] ELSE writes
      /\ ret' = o @@ [src |-> c.src, qc |-> c.qc, ocr |-> c.ocr, use_ocr |-> c.use_ocr,
                      pre |-> fs]
      /\ run' = AfterConvert(r, c, o, f2)

\* lines 27-80 entered by caller state r with arguments c: the call runs to
\* its end, or to the start of the OCR pool (lines 139-142)
Enter(r, c) ==
  LET o == ConvertEnter(fs, installed, c.src, c.qc, c.ocr, c.use_ocr)
  IN  IF o.status = "pool"
      THEN /\ call' = c
           /\ futures' = [i \in 0..(Len(fs[c.src].pages) - 1) |-> Pending]
           /\ results' = <<>>
           /\ collected' = {}
           /\ phase' = "collecting"
           /\ ret' = NoRet
           /\ run' = Reached(r, c.src, o)
           /\ UNCHANGED <<fs, writes>>
      ELSE /\ Complete(r, c, o)
           /\ UNCHANGED <<call, futures, results, collected, phase>>

\* a caller that holds no outcome calls convert_to_markdown
Convert(src, qc, ocr, use_ocr) ==
  /\ run.pc = "off"
  /\ ~call.active
  /\ ret = NoRet
  /\ Enter(run, [active |-> TRUE, src |-> src, qc |-> qc, ocr |-> ocr, use_ocr |-> use_ocr])
  /\ UNCHANGED installed

\* a caller that holds the outcome of a call repeats the call
ConvertAgain ==
  /\ run.pc = "off"
  /\ ~call.active
  /\ ret # NoRet
  /\ Enter(run, [active |-> TRUE, src |-> ret.src, qc |-> ret.qc, ocr |-> ret.ocr,
                 use_ocr |-> ret.use_ocr])
  /\ UNCHANGED installed

\* the caller is done with the outcome (line 188)
Discard ==
  /\ run.pc = "off"
  /\ ~call.active
  /\ ret # NoRet
  /\ ret' = NoRet
  /\ UNCHANGED <<fs, installed, call, futures, results, collected, phase, writes, run>>

TaskRun(i, raises) ==
  /\ call.active
  /\ i \in DOMAIN futures
  /\ futures[i].st = "pending"
  /\ futures' = [futures EXCEPT ![i] = RenderAndOcr(fs[call.src].pages[i + 1], raises)]
  /\ UNCHANGED <<fs, installed, call, results, collected, phase, ret, writes, run>>

Collect(i) ==
  /\ phase = "collecting"
  /\ i \in DOMAIN futures \ collected
  /\ futures[i].st # "pending"
  /\ collected' = collected \cup {i}
  /\ IF futures[i].st = "raised"
     THEN phase' = "raising" /\ UNCHANGED results
     ELSE results' = Store(results, i, futures[i].val) /\ UNCHANGED phase
  /\ UNCHANGED <<fs, installed, call, futures, ret, writes, run>>

\* mutant: an OCR error leaves the with block without joining the pool
PoolExitCancels ==
  /\ call.active
  /\ phase = "raising" \/ collected = DOMAIN futures
  /\ Complete(run, call, AfterPool(call.src, call.qc, phase = "raising", results))
  /\ call' = NoCall
  /\ futures' = <<>>
  /\ results' = <<>>
  /\ collected' = {}
  /\ phase' = "idle"
  /\ UNCHANGED installed

PoolExit ==
  /\ call.active
  /\ \A i \in DOMAIN futures : futures[i].st # "pending"
  /\ phase = "raising" \/ collected = DOMAIN futures
  /\ Complete(run, call, AfterPool(call.src, call.qc, phase = "raising", results))
  /\ call' = NoCall
  /\ futures' = <<>>
  /\ results' = <<>>
  /\ collected' = {}
  /\ phase' = "idle"
  /\ UNCHANGED installed

Next ==
  \/ \E src \in NotesPaths, qc \in QualityCheckers, ocr \in OcrFuncs, use_ocr \in BOOLEAN :
       Convert(src, qc, ocr, use_ocr)
  \/ ConvertAgain
  \/ Discard
  \/ \E i \in 0..(MaxPages - 1), raises \in BOOLEAN : TaskRun(i, raises)
  \/ \E i \in 0..(MaxPages - 1) : Collect(i)
  \/ PoolExit

Spec == Init /\ [][Next]_vars

(***************************************************************************)
(* Runs of main().                                                         *)
(***************************************************************************)
Finished == {"done", "exited", "crashed"}

\* a course directory: a cheatsheet of at most one page, lecture notes, and
\* at most one past paper; assignment/question does not exist
CheatsheetPdfs == {[pages |-> ps] : ps \in SeqsUpTo(PageSamples, 1)}
PastPaper == [dir |-> "past_papers", stem |-> "a", ext |-> "txt"]

CourseFiles ==
  {EmptyFs, CheatMd :> [text |-> OldMd]}
  \cup {CheatPdf :> c : c \in CheatsheetPdfs}
  \cup {(CheatMd :> [text |-> OldMd]) @@ (CheatPdf :> c) : c \in CheatsheetPdfs}

PastFiles == {EmptyFs, PastPaper :> [text |-> <<"q", "\n">>]}

\* the lecture notes of a run: documents of at most one page
RunNotes ==
  {n \in UNION {FsOver(S) : S \in FileSets} :
     \A p \in DOMAIN n : Lower(p.ext) = "pdf" => Len(n[p].pages) <= 1}

\* the application runs where its requirements are installed
InitRun ==
  /\ \E c \in CourseFiles, n \in RunNotes, q \in PastFiles : fs = c @@ n @@ q
  /\ run = [NoRun EXCEPT !.pc = "idle"]
  /\ InitCommon
  /\ installed = Backends

\* main lines 104-134 with _load_cheatsheet lines 83-101
Main(use_ocr) ==
  /\ run.pc = "idle" \/ run.pc \in Finished
  /\ run.nruns < MaxRuns
  /\ ~call.active
  /\ LET r == [NoRun EXCEPT !.pc = "cheatsheet", !.nruns = run.nruns + 1, !.use_ocr = use_ocr,
                            !.prev = [done |-> run.pc = "done", notes_ocr |-> run.notes_ocr,
                                      notes |-> run.lists[1]]]
     IN  IF Exists(fs, CheatMd)
         THEN /\ run' = [r EXCEPT !.pc = "gather", !.stage = 1,
                                  !.cheatsheet = ReadText(fs, CheatMd)]
              /\ ret' = NoRet
              /\ UNCHANGED <<fs, writes, call, futures, results, collected, phase>>
         ELSE IF Exists(fs, CheatPdf)
         THEN Enter(Called(r, CheatPdf), CallArgs(CheatPdf, use_ocr))
         ELSE /\ run' = [r EXCEPT !.pc = "exited"]
              /\ ret' = NoRet
              /\ UNCHANGED <<fs, writes, call, futures, results, collected, phase>>
  /\ UNCHANGED installed

\* _gather_markdown_files lines 48-52: the listing, taken once
GatherBegin(use_ocr) ==
  /\ run.pc = "gather"
  /\ ~run.listed
  /\ run' = [run EXCEPT !.listed = TRUE, !.use_ocr = use_ocr,
                        !.notes_ocr = IF run.stage = 1 THEN use_ocr ELSE @,
                        !.queue = ListDir(fs, GatherDirs[run.stage])]
  /\ UNCHANGED <<fs, installed, call, futures, results, collected, phase, ret, writes>>

\* lines 52-67: one iteration of the loop
GatherFile ==
  /\ run.pc = "gather"
  /\ run.listed
  /\ run.queue # <<>>
  /\ ~call.active
  /\ Enter(Called(run, Head(run.queue)), CallArgs(Head(run.queue), run.use_ocr))
  /\ UNCHANGED installed

\* line 69, then the next directory (main lines 136-138) or the report
\* (main lines 140-151)
GatherEnd ==
  /\ run.pc = "gather"
  /\ run.listed
  /\ run.queue = <<>>
  /\ run' = IF run.stage < Len(GatherDirs)
            THEN [run EXCEPT !.stage = @ + 1, !.listed = FALSE]
            ELSE [run EXCEPT !.pc = "done", !.report = TRUE]
  /\ UNCHANGED <<fs, installed, call, futures, results, collected, phase, ret, writes>>

\* between two runs the user replaces the cheatsheet PDF
EditCheatsheet(c) ==
  /\ run.pc \in Finished
  /\ run.nruns < MaxRuns
  /\ Exists(fs, CheatPdf)
  /\ fs[CheatPdf] # c
  /\ fs' = (CheatPdf :> c) @@ fs
  /\ UNCHANGED <<installed, call, futures, results, collected, phase, ret, writes, run>>

NextRun ==
  \/ \E use_ocr \in BOOLEAN : Main(use_ocr)
  \/ \E use_ocr \in BOOLEAN : GatherBegin(use_ocr)
  \/ GatherFile
  \/ GatherEnd
  \/ \E c \in CheatsheetPdfs : EditCheatsheet(c)
  \/ \E i \in 0..(MaxPages - 1), raises \in BOOLEAN : TaskRun(i, raises)
  \/ \E i \in 0..(MaxPages - 1) : Collect(i)
  \/ PoolExit

SpecRun == InitRun /\ [][NextRun]_vars

(***************************************************************************)
(* Vocabulary of the properties.                                           *)
(***************************************************************************)
\* a convert_to_markdown call has completed and ret describes it
Done == ret.src # NoPath
Sibling(p) == WithSuffix(p, "md")
SrcExisted == Done /\ Exists(ret.pre, ret.src)
SrcType == Lower(ret.src.ext)
HadSibling == Exists(ret.pre, Sibling(ret.src))
\* every file present before the call is present after it with the same content
Preserved == \A p \in DOMAIN ret.pre : p \in DOMAIN fs /\ fs[p] = ret.pre[p]
AllBlank(pages) == \A i \in 1..Len(pages) : Strip(OrEmpty(pages[i])) = <<>>
IsAscending(q) == \A i \in 1..(Len(q) - 1) : q[i] < q[i + 1]
\* the merged text of a document, page by page in ascending page number
RECURSIVE Sections(_, _)
Sections(pages, n) ==
  IF n > Len(pages) THEN <<>>
  ELSE (IF Strip(OrEmpty(pages[n])) = <<>> THEN <<>>
        ELSE PageHeader(n) \o <<"\n", "\n">> \o Strip(OrEmpty(pages[n])) \o <<"\n", "\n">>)
       \o Sections(pages, n + 1)
\* the sections joined by newlines: the last section's closing newline is absent
MergedByPage(pages) ==
  LET all == Sections(pages, 1) IN SubSeq(all, 1, Len(all) - 1)

(***************************************************************************)
(* C1: standard reuse is idempotent.  A call on an existing .txt or        *)
(* non-text source whose .md sibling exists returns the sibling, runs      *)
(* neither extraction nor the quality gate, and changes no file; a second  *)
(* call on the same source returns the same path and leaves the files as   *)
(* they are.                                                               *)
(***************************************************************************)
ReuseCase == SrcExisted /\ SrcType # "md" /\ HadSibling

C1_ReuseOutcome ==
  ReuseCase =>
    /\ ret.status = "returned"
    /\ ret.path = Sibling(ret.src)
    /\ ~ret.extracted /\ ~ret.gateRan /\ ~ret.wrote
    /\ fs = ret.pre

C1_SecondCall ==
  (ReuseCase /\ ret'.src = ret.src) =>
    (ret'.status = "returned" /\ ret'.path = ret.path /\ fs' = fs)

C1_StandardReuse == []C1_ReuseOutcome /\ [][C1_SecondCall]_vars

\* a cache hit on a sibling that an earlier call of the run wrote
C1_Witness ==
  /\ ReuseCase /\ SrcType = "pdf"
  /\ writes[Sibling(ret.src)] = 1
  /\ ret.status = "returned" /\ ret.path = Sibling(ret.src)

(***************************************************************************)
(* C2: quality gate enforcement.  When a gate is supplied and rejects the  *)
(* text produced for the source, the call raises the quality-check         *)
(* ConversionError naming the source and no file is written.               *)
(***************************************************************************)
C2_QualityGate ==
  (Done /\ ret.text # <<>> /\ ret.qc # "NoGate" /\ ~Gate(ret.qc, ret.text)) =>
    /\ ret.status = "raised"
    /\ ret.exc = "ConversionError" /\ ret.kind = "QualityCheckFailed" /\ ret.carries
    /\ ret.gateRan
    /\ fs = ret.pre
    /\ ~Exists(fs, Sibling(ret.src))

\* merged PDF text rejected by a gate
C2_Witness ==
  /\ Done /\ SrcType = "pdf" /\ ret.use_ocr
  /\ ret.kind = "QualityCheckFailed" /\ ret.text # <<>>

(***************************************************************************)
(* C3: a derived file is write-once.  No call changes or removes a file    *)
(* that existed when it started, a write goes only to a path that did not  *)
(* exist, and no path is written more than once.                           *)
(***************************************************************************)
C3_WriteOnce ==
  /\ \A p \in Paths : writes[p] <= 1
  /\ Done => /\ Preserved
             /\ ret.wrote => ~Exists(ret.pre, ret.path)

\* a second source with the same stem meets the sibling written for the first
C3_Witness ==
  /\ Done /\ SrcType = "txt" /\ Exists(fs, WithSuffix(ret.src, "pdf"))
  /\ writes[Sibling(ret.src)] = 1 /\ ~ret.wrote /\ ret.status = "returned"

(***************************************************************************)
(* C6: page-order determinism.  Whatever order the page tasks complete     *)
(* in, the merge iterates the collected pages in strictly ascending page   *)
(* index, and the text of a successful OCR conversion is the page-by-page  *)
(* merge of the document.                                                  *)
(***************************************************************************)
C6_PageOrder ==
  /\ call.active =>
       /\ IsAscending(IterationOrder(results))
       /\ {IterationOrder(results)[i] : i \in 1..Len(IterationOrder(results))} = Keys(results)
  /\ (SrcExisted /\ SrcType = "pdf" /\ ret.use_ocr /\ ret.text # <<>>) =>
       ret.text = MergedByPage(ret.pre[ret.src].pages)

\* page 2 was collected before page 1
C6_Witness ==
  /\ call.active /\ Len(results) = 2
  /\ results[1][1] > results[2][1]

(***************************************************************************)
(* C7 as stated: a PDF all of whose pages are blank makes the call fail    *)
(* with the no-extractable-text error and no sibling exists afterwards.    *)
(* "Extracted text" is read in the claim's favour: the mode's backend is   *)
(* installed and, in OCR mode, an OCR function is supplied, the document   *)
(* has a page and no OCR call raises.                                      *)
(***************************************************************************)
BlankPdfCase == SrcExisted /\ SrcType = "pdf" /\ AllBlank(ret.pre[ret.src].pages)

ExtractionRuns ==
  IF ret.use_ocr
  THEN ret.ocr # "NoOcr" /\ "fitz" \in installed /\ Len(ret.pre[ret.src].pages) > 0
       /\ ret.kind # "OcrError"
  ELSE "pypdf" \in installed

C7_AsStated ==
  (BlankPdfCase /\ ExtractionRuns) =>
    /\ ret.status = "raised" /\ ret.kind = "NoExtractableText"
    /\ ~Exists(fs, Sibling(ret.src))

(***************************************************************************)
(* C7 amended: a PDF without a derived sibling, all of whose pages are     *)
(* blank, makes the call fail and write nothing, so that no sibling exists *)
(* afterwards; the failure is the no-extractable-text error whenever the   *)
(* extraction runs as above.                                               *)
(***************************************************************************)
C7_BlankPdfFails ==
  (BlankPdfCase /\ ~HadSibling) =>
    /\ ret.status = "raised"
    /\ fs = ret.pre
    /\ ~Exists(fs, Sibling(ret.src))
    /\ ExtractionRuns => (ret.exc = "ConversionError" /\ ret.kind = "NoExtractableText")

\* both strategies reach the failure on a document with pages
C7_Witness ==
  /\ BlankPdfCase /\ ~HadSibling /\ ret.use_ocr
  /\ Len(ret.pre[ret.src].pages) = MaxPages
  /\ ret.kind = "NoExtractableText"

(***************************************************************************)
(* C8: every failure of the core is a ConversionError-family exception     *)
(* whose message carries the source path.                                  *)
(***************************************************************************)
CoreFailures == {"SourceNotFound", "UnsupportedType", "MissingOcrFunction",
                 "NoExtractableText", "QualityCheckFailed", "BackendUnavailable"}

C8_TypedWithPath ==
  (Done /\ ret.status = "raised" /\ ret.kind \in CoreFailures) =>
    (ret.exc = "ConversionError" /\ ret.carries)

(***************************************************************************)
(* C9: Markdown passthrough.  A call on an existing source whose           *)
(* extension is .md in any letter case returns the source path, runs no    *)
(* gate and changes no file.                                               *)
(***************************************************************************)
C9_Passthrough ==
  (SrcExisted /\ SrcType = "md") =>
    /\ ret.status = "returned" /\ ret.path = ret.src
    /\ ~ret.gateRan /\ ~ret.extracted /\ ~ret.wrote
    /\ fs = ret.pre

\* an upper-case .MD source, called with a gate that rejects everything
C9_Witness ==
  /\ SrcExisted /\ ret.src.ext = "MD" /\ ret.qc = "reject"
  /\ ret.status = "returned" /\ ret.path = ret.src

(***************************************************************************)
(* C10 as stated: a .txt source without a derived sibling gets a sibling   *)
(* holding the trimmed source text and one newline, and the call returns   *)
(* the sibling's path.                                                     *)
(***************************************************************************)
FreshTxtCase == SrcExisted /\ SrcType = "txt" /\ ~HadSibling
Normalised(text) == Strip(text) \o <<"\n">>

TxtConverted ==
  /\ ret.status = "returned" /\ ret.path = Sibling(ret.src)
  /\ Exists(fs, Sibling(ret.src))
  /\ fs[Sibling(ret.src)].text = Normalised(ret.pre[ret.src].text)

C10_AsStated == FreshTxtCase => TxtConverted

(***************************************************************************)
(* C10 amended: the same, unless a supplied quality gate rejects the       *)
(* normalised text; then the call fails and no sibling is written.         *)
(***************************************************************************)
GateAccepts == ret.qc = "NoGate" \/ Gate(ret.qc, Normalised(ret.pre[ret.src].text))

C10_TxtNormalised ==
  FreshTxtCase =>
    IF GateAccepts THEN TxtConverted
    ELSE ret.status = "raised" /\ ~Exists(fs, Sibling(ret.src))

\* a source with leading and trailing whitespace was normalised and written
C10_Witness ==
  /\ FreshTxtCase /\ ret.wrote
  /\ Len(ret.pre[ret.src].text) > Len(fs[Sibling(ret.src)].text)
  /\ Len(fs[Sibling(ret.src)].text) > 1

(***************************************************************************)
(* C4: forced-fresh cheatsheet policy.  In every run in which the          *)
(* cheatsheet's only source is the PDF (any cheatsheet.md present was      *)
(* derived from it by an earlier run), the cheatsheet text the run uses    *)
(* is the extraction of the PDF as it is in that run.                      *)
(***************************************************************************)
PdfOnlySource ==
  /\ Exists(fs, CheatPdf)
  /\ Exists(fs, CheatMd) => writes[CheatMd] > 0

C4_ForcedFresh ==
  (run.pc = "gather" /\ PdfOnlySource) =>
    run.cheatsheet = MergedByPage(fs[CheatPdf].pages)

(***************************************************************************)
(* C5: batch failure isolation.  Whenever the conversion of a file of a    *)
(* batch fails, whatever the failure, the file is logged and skipped and   *)
(* the batch goes on with the remaining files.                             *)
(***************************************************************************)
C5_BatchIsolation ==
  (run.stage >= 1 /\ Done /\ ret.status = "raised") =>
    (run.pc = "gather" /\ ret.src \in run.skipped)

(***************************************************************************)
(* C11: merge format.  Split at its newlines, the merged Markdown of a     *)
(* PDF is four lines for each page whose trimmed text is non-empty, in     *)
(* page order and for no other page: the header "Page N" with N the        *)
(* 1-based page number, an empty line, the trimmed page text, an empty     *)
(* line.                                                                   *)
(***************************************************************************)
\* str.split("\n")
RECURSIVE SplitLines(_)
SplitLines(t) ==
  IF \A i \in 1..Len(t) : t[i] # "\n" THEN <<t>>
  ELSE LET k == CHOOSE i \in 1..Len(t) : t[i] = "\n" /\ \A j \in 1..(i - 1) : t[j] # "\n"
       IN  <<SubSeq(t, 1, k - 1)>> \o SplitLines(SubSeq(t, k + 1, Len(t)))

NonBlankPages(pages) == {n \in 1..Len(pages) : Strip(OrEmpty(pages[n])) # <<>>}

PdfMerged == SrcExisted /\ SrcType = "pdf" /\ ret.extracted /\ ret.text # <<>>

C11_MergeFormat ==
  PdfMerged =>
    LET pages == ret.pre[ret.src].pages
        shown == SortedSeq(NonBlankPages(pages))
        ls == SplitLines(ret.text)
    IN  /\ Len(ls) = 4 * Len(shown)
        /\ \A k \in 1..Len(shown) :
             /\ ls[4 * k - 3] = <<"P", "a", "g", "e", " ">> \o DecStr(shown[k])
             /\ ls[4 * k - 2] = <<>>
             /\ ls[4 * k - 1] = Strip(OrEmpty(pages[shown[k]]))
             /\ ls[4 * k] = <<>>

\* a document whose first page is blank was merged to its second page alone
C11_Witness ==
  /\ PdfMerged /\ ret.wrote
  /\ Len(ret.pre[ret.src].pages) = 2
  /\ NonBlankPages(ret.pre[ret.src].pages) = {2}

(***************************************************************************)
(* C12: per-source state machine.  Within a run every source starts        *)
(* Unseen, convert_to_markdown is called on it at most once (so extraction *)
(* is attempted at most once and a Failed source is not retried), the      *)
(* call leaves it in exactly one of Reused, Converted and Failed, no step  *)
(* of the run leaves a terminal state, and when the run completes every    *)
(* source file of the gathered directories is in a terminal state.         *)
(***************************************************************************)
Terminal == {"Reused", "Converted", "Failed"}

\* the files of the gathered directories that no conversion wrote
GatheredSources ==
  {p \in DOMAIN fs : /\ \E i \in 1..Len(GatherDirs) : p.dir = GatherDirs[i]
                     /\ Lower(p.ext) \in Eligible
                     /\ writes[p] = 0}

C12_States ==
  /\ \A p \in Paths :
       /\ run.tries[p] <= 1
       /\ run.tries[p] = 0 <=> run.state[p] = "Unseen"
       /\ (run.tries[p] = 1 /\ ~call.active) => run.state[p] \in Terminal
       /\ run.state[p] = "Extracting" => (call.active /\ call.src = p)
  /\ run.pc = "done" => \A p \in GatheredSources : run.state[p] \in Terminal

C12_Step ==
  run'.nruns = run.nruns =>
    \A p \in Paths :
      /\ run.state[p] \in Terminal => run'.state[p] = run.state[p]
      /\ run.state[p] = "Extracting" => run'.state[p] \in {"Extracting", "Converted", "Failed"}

C12_SourceStates == []C12_States /\ [][C12_Step]_vars

\* a completed run in which one source failed and another was converted
C12_Witness ==
  /\ run.pc = "done"
  /\ \E p, q \in GatheredSources :
       /\ p.dir = q.dir
       /\ run.state[p] = "Failed" /\ run.tries[p] = 1
       /\ run.state[q] = "Converted"

(***************************************************************************)
(* C13: a cheatsheet failure is fatal.  When the conversion of the         *)
(* cheatsheet PDF fails, or the course has neither cheatsheet.md nor       *)
(* cheatsheet.pdf, the run has stopped: convert_to_markdown is called on   *)
(* no file of the lecture notes, past papers or assignment, the corpus     *)
(* lists stay empty and no report is written.                              *)
(***************************************************************************)
NoCheatsheetSource == ~Exists(fs, CheatMd) /\ ~Exists(fs, CheatPdf)

CheatsheetFailed ==
  \/ run.state[CheatPdf] = "Failed"
  \/ run.nruns > 0 /\ NoCheatsheetSource

C13_CheatsheetFatal ==
  CheatsheetFailed =>
    /\ run.pc \in {"exited", "crashed"}
    /\ run.stage = 0
    /\ \A p \in Paths \ {CheatPdf} : run.tries[p] = 0 /\ run.state[p] = "Unseen"
    /\ run.lists = <<<<>>, <<>>, <<>>>>
    /\ ~run.report

\* the cheatsheet PDF was blank while lecture notes waited to be converted
C13_Witness ==
  /\ run.state[CheatPdf] = "Failed" /\ run.pc = "exited"
  /\ \E p \in DOMAIN fs : p.dir = "lecture_notes" /\ Lower(p.ext) = "txt"

(***************************************************************************)
(* C14: the cache hit precedes validation.  A call on an existing source   *)
(* that is neither .md nor .txt and whose .md sibling exists returns the   *)
(* sibling, whatever the extension, use_ocr and the OCR function are.      *)
(* The unsupported-type error is raised exactly when the sibling is absent *)
(* and the extension is not .pdf, the missing-OCR-function error exactly   *)
(* when the sibling is absent, the source is a PDF and use_ocr is set      *)
(* without an OCR function.                                                *)
(***************************************************************************)
NonTextCase == SrcExisted /\ SrcType \notin {"md", "txt"}

C14_CacheHitFirst ==
  /\ (NonTextCase /\ HadSibling) =>
       /\ ret.status = "returned" /\ ret.path = Sibling(ret.src)
       /\ ~ret.extracted /\ fs = ret.pre
  /\ (Done /\ ret.kind = "UnsupportedType") <=>
       (NonTextCase /\ ~HadSibling /\ SrcType # "pdf")
  /\ (Done /\ ret.kind = "MissingOcrFunction") <=>
       (NonTextCase /\ ~HadSibling /\ SrcType = "pdf" /\ ret.use_ocr /\ ret.ocr = "NoOcr")

\* an unsupported type with a sibling, called in OCR mode without an OCR
\* function, is a cache hit
C14_Witness ==
  /\ NonTextCase /\ HadSibling /\ SrcType = "doc"
  /\ ret.use_ocr /\ ret.ocr = "NoOcr"
  /\ ret.status = "returned"

(***************************************************************************)
(* C15: batch assembly is repeatable.  When two consecutive runs complete  *)
(* and gather the lecture notes with the same use_ocr flag, the second     *)
(* gather returns the list of Markdown strings that the first returned.    *)
(* Between the runs only the cheatsheet PDF, which is in no gathered       *)
(* directory, may change.                                                  *)
(***************************************************************************)
C15_Repeatable ==
  (run.pc = "done" /\ run.prev.done /\ run.notes_ocr = run.prev.notes_ocr) =>
    run.lists[1] = run.prev.notes

(***************************************************************************)
(* C16: the returned artifact is derived from its source.  In a directory  *)
(* that held no .md file before the calls, the file a call returns for a   *)
(* .txt or .pdf source holds the text produced from that source: the       *)
(* normalised text of the .txt, the page-by-page merge of the .pdf.        *)
(***************************************************************************)
\* every .md file present was written by a call
NoInitialMd == \A p \in DOMAIN fs : Lower(p.ext) = "md" => writes[p] > 0

ProducedFrom(f, src) ==
  IF Lower(src.ext) = "txt" THEN Normalised(f[src].text) ELSE MergedByPage(f[src].pages)

C16_DerivedFromSource ==
  (SrcExisted /\ SrcType \in {"txt", "pdf"} /\ NoInitialMd /\ ret.status = "returned") =>
    fs[ret.path].text = ProducedFrom(ret.pre, ret.src)

(***************************************************************************)
(* C17: no cancellation in the OCR fan-out.  While the pool is open there  *)
(* is one task per page of the document; the conversion returns or raises  *)
(* to its caller only when no task is pending any more, also after the     *)
(* OCR call of one page has raised; and a raised OCR call makes the        *)
(* conversion raise and write nothing.                                     *)
(***************************************************************************)
C17_OneTaskPerPage ==
  call.active => DOMAIN futures = 0..(Len(fs[call.src].pages) - 1)

C17_Join ==
  (call.active /\ ~call.active') =>
    /\ \A i \in DOMAIN futures : futures[i].st # "pending"
    /\ (\E i \in DOMAIN futures : futures[i].st = "raised") =>
         /\ ret'.status = "raised" /\ ret'.kind = "OcrError"
         /\ ~ret'.wrote /\ fs' = fs

C17_NoCancellation == []C17_OneTaskPerPage /\ [][C17_Join]_vars

\* the error of one page has reached the caller's loop while another page's
\* task has not run yet
C17_Witness ==
  /\ call.active /\ phase = "raising"
  /\ \E i \in DOMAIN futures : futures[i].st = "pending"

(***************************************************************************)
(* C18: the accumulation map is free of races.  The map changes only in a  *)
(* step of the calling thread's as_completed loop, by the one entry of the *)
(* future that step takes, so no two threads insert at once; it never      *)
(* holds a key twice; and when every task has completed and been taken     *)
(* without an OCR error, it holds exactly the pages whose trimmed text is  *)
(* non-empty, each keyed by its page index with that text.                 *)
(***************************************************************************)
C18_MapState ==
  call.active =>
    /\ Cardinality(Keys(results)) = Len(results)
    /\ Keys(results) \subseteq collected
    /\ (phase = "collecting" /\ collected = DOMAIN futures) =>
         /\ Keys(results) = {n - 1 : n \in NonBlankPages(fs[call.src].pages)}
         /\ \A k \in Keys(results) :
              Lookup(results, k) = Strip(OrEmpty(fs[call.src].pages[k + 1]))

C18_SingleWriter ==
  (call.active /\ call.active' /\ results' # results) =>
    \E i \in DOMAIN futures :
      /\ phase = "collecting" /\ i \notin collected /\ collected' = collected \cup {i}
      /\ futures' = futures /\ futures[i].st = "done"
      /\ results' = Append(results, <<i, futures[i].val>>)

C18_RaceFree == []C18_MapState /\ [][C18_SingleWriter]_vars

\* every page was taken and a blank page left no entry
C18_Witness ==
  /\ call.active /\ phase = "collecting" /\ collected = DOMAIN futures
  /\ Cardinality(DOMAIN futures) = MaxPages
  /\ Len(results) = MaxPages - 1

(***************************************************************************)
(* C19: the two PDF strategies merge identically.  For a document of at    *)
(* least one page whose OCR calls return the pages' texts, the map the     *)
(* concurrent collection ends with merges to the lines of the sequential   *)
(* text-layer merge, and the OCR conversion ends as the text-layer         *)
(* conversion of the same document would: with the same written text, or   *)
(* with the same failure when no page has non-blank text.                  *)
(***************************************************************************)
OcrCompleted ==
  /\ SrcExisted /\ SrcType = "pdf" /\ ~HadSibling
  /\ ret.use_ocr /\ ret.ocr # "NoOcr" /\ "fitz" \in installed
  /\ Len(ret.pre[ret.src].pages) >= 1
  /\ ret.kind # "OcrError"

C19_SameMerge ==
  /\ (call.active /\ phase = "collecting" /\ collected = DOMAIN futures) =>
       OcrLines(results) = TextLines(PageTexts(fs[call.src].pages), 1)
  /\ OcrCompleted =>
       LET t == ConvertPdfText(ret.pre, {"pypdf"}, ret.src, ret.qc)
       IN  /\ ret.status = t.status /\ ret.exc = t.exc /\ ret.kind = t.kind
           /\ ret.path = t.path /\ ret.wrote = t.wrote /\ ret.text = t.text

\* an OCR conversion of a document all of whose pages have text
C19_Witness ==
  /\ OcrCompleted /\ ret.wrote
  /\ Len(ret.pre[ret.src].pages) = MaxPages
  /\ Cardinality(NonBlankPages(ret.pre[ret.src].pages)) = MaxPages

====
